---- MODULE Spec2Model ----
(***************************************************************************)
(* Request authentication, authorization and instrumentation layer of the  *)
(* MERN reference server: the sliding-window rate limiter, the bearer      *)
(* authentication / ownership gate, the Express middleware chain of        *)
(* app.js and the PerformanceMonitor timing registry.                      *)
(*                                                                         *)
(* Node runs every middleware to completion on one thread, so a            *)
(* synchronous middleware is one action; requests interleave only at the   *)
(* await points of the asynchronous route handlers.                        *)
(***************************************************************************)
EXTENDS Integers, Sequences, FiniteSets, TLC

(***************************************************************************)
(* Bounds of the model.                                                    *)
(***************************************************************************)
MaxRequests == 2      \* maxRequests argument of rateLimit (the unit test uses 2)
WindowMs    == 2      \* windowMs argument of rateLimit, in clock ticks
MaxNow      == 4      \* the clock Date.now() runs over 0..MaxNow
MaxPending  == 2      \* requests of one client waiting for the event loop
MaxHr       == 3      \* the clock process.hrtime runs over 0..MaxHr
MaxInFlight == 2      \* requests that await the database at one time
MaxCompleted == 3     \* completed requests the observer of the metrics counts

Keys == {"ipA", "ipB"}          \* req.ip values

VARIABLES
    now,        \* Date.now(), non-decreasing
    requests,   \* rateLimit: the closure's Map ip -> array of timestamps
    pending,    \* requests per ip accepted by the socket, not yet dispatched
    last,       \* outcome of the most recent rateLimit call
    prev,       \* value of `requests' when the most recent call began
    admitted,   \* history: per ip, the MaxRequests+1 most recent times at
                \* which next() was called
    rejected,   \* history: per ip, time of the most recent 429 (-1: none)
    solo,       \* per ip, the Map of a limiter that only ever saw that ip
    soloDenied, \* what that limiter answered to the most recent request
    hr,         \* process.hrtime.bigint(), in ticks
    metrics,    \* PerformanceMonitor.metrics: operationId -> startTime
    inflight,   \* the requests whose handler awaits the database
    done,       \* the request whose response ended most recently
    phase,      \* per operation id of a direct caller: NotStarted, Running
                \* or Completed
    ended,      \* outcome of the most recent direct endTiming call
    completed,  \* number of requests whose response has ended
    durationSum, \* sum of the durations (ms) of those requests
    wallet,     \* the tokens generateToken has issued: subject, instant, token
    verdict,    \* outcome of the most recent verification of a token
    prevVerdict, \* what the verification before that one showed its caller
    failed,     \* issued tokens that failed verification, with the instant
    header,     \* the Authorization header value handed to extractToken
    extracted,  \* what extractToken returned for it
    mwCall,     \* outcome of the most recent direct call of a middleware
    users,      \* the User collection: username and email of each document
    regs,       \* the POST /api/auth/register requests whose handler awaits
    regReply,   \* the most recent response to a registration
    timers,     \* the pending timers of setTimeout: id, due instant, args
    timeout,    \* debounce: the closure's variable, id of the latest timer
    nextTimerId, \* the id setTimeout returns next
    lastCall,   \* the most recent call of the debounced function
    fired,      \* the most recent invocation of the wrapped function
    invocations, \* invocations of the wrapped function since that call
    tfCalls,    \* the timeFunction calls that await their fn
    tfDone,     \* the timeFunction call that settled most recently
    boundary,   \* the ErrorBoundary component: props, state, last render
    proc        \* the server process: connections, shutdown timers, exit

rlVars == <<requests, pending, last, prev, admitted, rejected, solo, soloDenied>>

appVars == <<hr, metrics, inflight, done>>

cntVars == <<completed, durationSum>>

jwtVars == <<wallet, verdict, prevVerdict, failed>>

hdrVars == <<header, extracted>>

obsVars == <<jwtVars, hdrVars>>

mwVars == <<mwCall>>

regVars == <<users, regs, regReply>>

dbVars == <<timers, timeout, nextTimerId, lastCall, fired, invocations>>

tfVars == <<tfCalls, tfDone>>

ebVars == <<boundary>>

sdVars == <<proc>>

extVars == <<mwVars, regVars, dbVars, tfVars, ebVars, sdVars>>

auxVars == <<phase, ended, cntVars, obsVars, extVars>>

vars == <<now, rlVars, appVars, auxVars>>

(***************************************************************************)
(* rateLimit (middleware/auth.js; src: middleware/requestLogger.js 137-165) *)
(***************************************************************************)
EmptyMap == [ip \in {} |-> <<>>]

\* Variant: the filter keeps a timestamp exactly windowMs old.
FreshInclusive(timestamp, windowStart) == timestamp >= windowStart

\* timestamps.filter(timestamp => timestamp > windowStart)
Fresh(timestamp, windowStart) == timestamp > windowStart

FilterFresh(timestamps, windowStart) ==
    SelectSeq(timestamps, LAMBDA t : Fresh(t, windowStart))

\* Variant: the loop filters every window but never deletes an emptied ip.
CleanKeepsEmptyKeys(reqs, windowStart) ==
    [ip \in DOMAIN reqs |-> FilterFresh(reqs[ip], windowStart)]

\* Variant: the clean-up loop is missing.
CleanNothing(reqs, windowStart) == reqs

\* for (const [ip, timestamps] of requests) { set filtered; delete if empty }
CleanOldEntries(reqs, windowStart) ==
    LET kept == {ip \in DOMAIN reqs : Len(FilterFresh(reqs[ip], windowStart)) # 0}
    IN  [ip \in kept |-> FilterFresh(reqs[ip], windowStart)]

\* Variant: the count is taken over the fullest window of any ip.
UserRequestsOfAnyKey(reqs, key) ==
    IF DOMAIN reqs = {}
    THEN <<>>
    ELSE reqs[CHOOSE ip \in DOMAIN reqs :
                 \A other \in DOMAIN reqs : Len(reqs[other]) <= Len(reqs[ip])]

\* requests.get(key) || []
UserRequests(reqs, key) == IF key \in DOMAIN reqs THEN reqs[key] ELSE <<>>

\* Variant: the comparison is off by one.
OverLimitOffByOne(userRequests) == Len(userRequests) > MaxRequests

\* if (userRequests.length >= maxRequests)
OverLimit(userRequests) == Len(userRequests) >= MaxRequests

\* Variant: the timestamp is pushed before the limit is looked at.
StoreRequestAlways(reqs, key, userRequests, at, limited) ==
    [ip \in DOMAIN reqs \cup {key} |->
        IF ip = key THEN Append(userRequests, at) ELSE reqs[ip]]

\* userRequests.push(now); requests.set(key, userRequests)  -- skipped on 429
StoreRequest(reqs, key, userRequests, at, limited) ==
    IF limited
    THEN reqs
    ELSE [ip \in DOMAIN reqs \cup {key} |->
             IF ip = key THEN Append(userRequests, at) ELSE reqs[ip]]

\* The Map after one call of the middleware for `key' at time `at'.
RateLimitMap(reqs, key, at) ==
    LET cleaned      == CleanOldEntries(reqs, at - WindowMs)
        userRequests == UserRequests(cleaned, key)
    IN  StoreRequest(cleaned, key, userRequests, at, OverLimit(userRequests))

\* TRUE when the call answers 429 instead of calling next().
RateLimitDenies(reqs, key, at) ==
    OverLimit(UserRequests(CleanOldEntries(reqs, at - WindowMs), key))

\* res.status(429).json({ error: 'Too many requests' })  /  next()
RateLimitOutcome(key, at, denied) ==
    [key        |-> key,
     at         |-> at,
     status     |-> IF denied THEN 429 ELSE 0,
     body       |-> IF denied THEN "Too many requests" ELSE "",
     nextCalled |-> ~denied]

NoCall == [key |-> "none", at |-> 0, status |-> 0, body |-> "",
           nextCalled |-> FALSE]

\* The history keeps the MaxRequests+1 most recent admissions of a key: more
\* than MaxRequests admissions share a window exactly when these do.
Remember(history, at) ==
    LET all == Append(history, at)
    IN  IF Len(all) > MaxRequests + 1 THEN Tail(all) ELSE all



(***************************************************************************)
(* The Express application (app.js), its routers (routes/auth.js,          *)
(* routes/posts.js), the bearer authentication and ownership gate          *)
(* (middleware/auth.js), the error handling (middleware/errorHandler.js)   *)
(* and the timing registry of PerformanceMonitor (utils/performance.js).   *)
(***************************************************************************)
Users   == {"u1", "u2"}                     \* user._id values
PostIds == {"p1"}                           \* post._id values

\* Post.author of the stored posts.
Author(postId) == IF postId = "p1" THEN "u1" ELSE "u2"

PostUrl(postId) == IF postId = "p1" THEN "/api/posts/p1" ELSE "/api/posts/p2"

\* The requests a client can send: method and url.
Endpoints ==
    {[method |-> "GET",  url |-> "/health"],
     [method |-> "GET",  url |-> "/api/auth/me"],
     [method |-> "POST", url |-> "/api/posts"],
     [method |-> "GET",  url |-> "/nowhere"]}
    \cup {[method |-> m, url |-> PostUrl(p)] :
              m \in {"GET", "PUT", "DELETE"}, p \in PostIds}

(***************************************************************************)
(* utils/auth.js: generateToken, verifyToken, extractToken, over the       *)
(* jsonwebtoken library.  A token is its decoded content: the payload and  *)
(* the signature, which records what was signed and with which key.        *)
(***************************************************************************)
MsPerSecond == 2      \* milliseconds of Date.now() in one second of a token
expiresIn   == 1      \* lifetime of a token in seconds ('7d' in the source)

\* process.env.JWT_SECRET || 'default-secret-key'
Secret == "default-secret-key"

\* user.username of the registered users
Username(u) == IF u = "u1" THEN "alice" ELSE "bob"

UserDocs == {[_id |-> u, username |-> Username(u)] : u \in Users}

NoSubject == [_id |-> "", username |-> ""]

\* Math.floor(Date.now() / 1000)
Seconds(ms) == ms \div MsPerSecond

\* The signature of a token's payload under a key.
Signature(token, key) ==
    <<token.userId, token.username, token.iat, token.exp, key>>

\* jwt.sign(payload, secretOrPrivateKey, { expiresIn })
jwtSign(payload, key, lifetime) ==
    LET unsigned == [kind     |-> "jwt",
                     userId   |-> payload.userId,
                     username |-> payload.username,
                     iat      |-> Seconds(now),
                     exp      |-> Seconds(now) + lifetime,
                     sig      |-> <<>>]
    IN  [unsigned EXCEPT !.sig = Signature(unsigned, key)]

\* Variant: the username is written where the user id belongs.
generateTokenSwapsFields(user) ==
    jwtSign([userId |-> user.username, username |-> user.username],
            Secret, expiresIn)

\* generateToken
generateToken(user) ==
    jwtSign([userId |-> user._id, username |-> user.username], Secret, expiresIn)

\* Variant: a token is still accepted in the second of its expiry.
jwtVerifyLateExpiry(token, key) ==
    IF token.kind # "jwt" THEN "JsonWebTokenError"
    ELSE IF token.sig # Signature(token, key) THEN "JsonWebTokenError"
    ELSE IF Seconds(now) > token.exp THEN "TokenExpiredError"
    ELSE "ok"

\* jwt.verify(token, secretOrPublicKey): the name of the error it throws, or
\* "ok" when it returns the payload.
jwtVerify(token, key) ==
    IF token.kind # "jwt" THEN "JsonWebTokenError"
    ELSE IF token.sig # Signature(token, key) THEN "JsonWebTokenError"
    ELSE IF Seconds(now) >= token.exp THEN "TokenExpiredError"
    ELSE "ok"

\* verifyToken returns (TRUE) or throws (FALSE)
verifyTokenAccepts(token) == jwtVerify(token, Secret) = "ok"

\* Variant: the error of jwt.verify is passed on to the caller.
verifyTokenErrorLeaks(token) ==
    IF verifyTokenAccepts(token) THEN "" ELSE jwtVerify(token, Secret)

\* the message of the error verifyToken throws
verifyTokenError(token) ==
    IF verifyTokenAccepts(token) THEN "" ELSE "Invalid token"

\* the decoded payload verifyToken returns
verifyToken(token) ==
    [userId |-> token.userId, username |-> token.username,
     iat |-> token.iat, exp |-> token.exp]

\* A string that is not a JWT.
Garbage == [kind |-> "garbage", userId |-> "", username |-> "",
            iat |-> 0, exp |-> 0, sig |-> <<>>]

NoToken == [kind |-> "none", userId |-> "", username |-> "",
            iat |-> 0, exp |-> 0, sig |-> <<>>]

\* The tokens a client sends: one just issued to a user, or any other string.
Tokens == {Garbage} \cup {generateToken(user) : user \in UserDocs}

(***************************************************************************)
(* Header values are strings: sequences of one-character strings.          *)
(***************************************************************************)
NoHeader == <<"undefined">>     \* req.headers.authorization of no header
Null     == <<"null">>

Whitespace == {" ", "\t"}

BearerPrefix == <<"B", "e", "a", "r", "e", "r", " ">>

\* String.prototype.startsWith
startsWith(str, prefix) ==
    Len(str) >= Len(prefix) /\ SubSeq(str, 1, Len(prefix)) = prefix

\* String.prototype.substring(start)
substring(str, start) == SubSeq(str, start + 1, Len(str))

\* String.prototype.trim
trim(str) ==
    LET inked == {i \in DOMAIN str : str[i] \notin Whitespace}
    IN  IF inked = {} THEN <<>>
        ELSE SubSeq(str, CHOOSE i \in inked : \A j \in inked : i <= j,
                         CHOOSE i \in inked : \A j \in inked : i >= j)

\* !authHeader: undefined, null and the empty string are falsy
Falsy(str) == str \in {NoHeader, Null, <<>>}

\* extractToken
extractToken(authHeader) ==
    IF Falsy(authHeader) \/ ~startsWith(authHeader, BearerPrefix)
    THEN Null
    ELSE trim(substring(authHeader, 7))

\* The Authorization header of a request: its text, in which the character
\* "t" stands for the text of a token, and the token that text encodes.
Header(text, token) == [text |-> text, token |-> token]

Anonymous == Header(NoHeader, NoToken)

\* Values of the Authorization header: absent, another scheme, Bearer <token>.
AuthHeaders ==
    {Anonymous,
     Header(<<"B", "a", "s", "i", "c", " ", "t">>, NoToken)}
    \cup {Header(BearerPrefix \o <<"t">>, token) : token \in Tokens}

\* req.user before authenticate has set it.
NoUser == [userId |-> "undefined", username |-> "undefined",
           iat |-> -1, exp |-> -1]

\* The value endTiming returns when it finds no entry.
Undefined == -1

NoOperation == <<"", "", -1>>

\* express gives req.params the parameters named in the route's path.
ParamsOf(method, url) ==
    IF \E p \in PostIds : url = PostUrl(p)
    THEN [name \in {"id"} |-> CHOOSE p \in PostIds : url = PostUrl(p)]
    ELSE [name \in {} |-> ""]

\* req.params.<name>
Param(params, name) == IF name \in DOMAIN params THEN params[name] ELSE "undefined"

NewRequest(method, url, authorization, bodyValid) ==
    [method      |-> method,
     url         |-> url,
     authorization |-> authorization,
     bodyValid   |-> bodyValid,
     params      |-> ParamsOf(method, url),
     user        |-> NoUser,
     state       |-> "open",     \* open, threw, rejected, awaiting, done
     awaiting    |-> "",         \* the database call the handler awaits
     error       |-> "",         \* err.name of the error being propagated
     stages      |-> <<>>,       \* the middleware and handlers that ran
     operationId |-> NoOperation,
     startTime   |-> -1,         \* hrtime at which requestMonitor saw it
     endTime     |-> -1,         \* hrtime at which its response ended
     endCalls    |-> 0,          \* calls of endTiming made for it
     duration    |-> Undefined,  \* what endTiming returned to its res.end
     slowWarned  |-> FALSE,      \* 'Slow request detected' was logged
     called      |-> <<>>,       \* argument lists res.end was called with
     sent        |-> <<>>,       \* argument lists the underlying end received
     status      |-> 0,
     body        |-> ""]

NoRequest == [NewRequest("", "", Anonymous, TRUE)
                 EXCEPT !.state = "none"]

NoMetrics == [id \in {} |-> 0]

Slots == 1..MaxInFlight

(***************************************************************************)
(* PerformanceMonitor.startTiming / endTiming                              *)
(***************************************************************************)
\* this.metrics.set(operationId, { startTime: process.hrtime.bigint() })
startTiming(m, operationId) ==
    [id \in DOMAIN m \cup {operationId} |->
        IF id = operationId THEN hr ELSE m[id]]

\* Milliseconds in one step of the hrtime clock of the model.
MsPerTick == 600

\* the value endTiming returns: Number(endTime - startTime) / 1000000, in ms
endTimingDuration(m, operationId) ==
    IF operationId \in DOMAIN m THEN (hr - m[operationId]) * MsPerTick
    ELSE Undefined

\* perfLogger.warn(`No timing started for operation: ...`)
endTimingWarns(m, operationId) == operationId \notin DOMAIN m

\* Variant: the entry is not deleted when the timing ends.
endTimingKeepsEntry(m, operationId) == m

\* this.metrics.delete(operationId)
endTimingMetrics(m, operationId) ==
    [id \in DOMAIN m \ {operationId} |-> m[id]]

(***************************************************************************)
(* A context is a request together with the registry, handed from one      *)
(* middleware to the next.                                                 *)
(***************************************************************************)
Stage(c, name) == [c EXCEPT !.req.stages = Append(@, name)]

\* this.slowRequestThreshold = 1000; // ms
slowRequestThreshold == 1000

\* if (duration > this.slowRequestThreshold): false for undefined
slowRequest(duration) == duration # Undefined /\ duration > slowRequestThreshold

\* The res.end of express: sends what it is given and ends the response.
originalEnd(req, args) ==
    [req EXCEPT !.sent  = Append(@, args),
                !.body  = IF Len(args) > 0 THEN args[1] ELSE "",
                !.state = "done"]

\* Variant: the wrapper calls the original end without the arguments.
logRequestsEndDropsArgs(req, args) == originalEnd(req, <<>>)

\* res.end as overridden by logRequests: logs the request, then
\* originalEnd.apply(this, args)
logRequestsEnd(req, args) == originalEnd(req, args)

\* res.end as overridden by requestMonitor: endTiming for the operation id of
\* this request, the slow-request warning, then originalEnd.apply(res, args),
\* the original being the override logRequests installed before.
monitorEnd(c, args) ==
    LET duration == endTimingDuration(c.metrics, c.req.operationId)
    IN  [req |-> logRequestsEnd([c.req EXCEPT
                                    !.called     = Append(@, args),
                                    !.duration   = duration,
                                    !.slowWarned = slowRequest(duration),
                                    !.endCalls   = @ + 1,
                                    !.endTime    = hr],
                                args),
         metrics |-> endTimingMetrics(c.metrics, c.req.operationId)]

\* res.status(status).json(body): sets the status code and ends the response
\* with the body.
ResEnd(c, status, body) ==
    monitorEnd([c EXCEPT !.req.status = status], <<body>>)

\* throw / promise rejection with an error of the given name
Throw(c, how, name) == [c EXCEPT !.req.state = how, !.req.error = name]

\* logRequests: wraps res.end, next()
logRequests(c) == Stage(c, "logRequests")

\* `request-${req.method}-${req.url}-${Date.now()}`
OperationId(req) == <<req.method, req.url, now>>

\* requestMonitor: startTiming(operationId), wraps res.end, next()
requestMonitor(c) ==
    LET operationId == OperationId(c.req)
    IN  [req |-> [Stage(c, "requestMonitor").req EXCEPT
                     !.operationId = operationId,
                     !.startTime = hr],
         metrics |-> startTiming(c.metrics, operationId)]

\* authenticate, the catch block: whatever was thrown inside the try
\* block is answered with 401
authenticateCatch(c) == ResEnd(c, 401, "Invalid or expired token")

\* Variant: the token is decoded but its verification result is ignored.
authenticateIgnoresVerdict(c) ==
    LET token == extractToken(c.req.authorization.text)
        c1    == Stage(c, "authenticate")
    IN  IF Falsy(token)
        THEN ResEnd(c1, 401, "Access token required")
        ELSE [c1 EXCEPT !.req.user = verifyToken(c.req.authorization.token)]

\* authenticate, up to its call of next()
authenticate(c) ==
    LET token == extractToken(c.req.authorization.text)
        c1    == Stage(c, "authenticate")
    IN  IF Falsy(token)
        THEN ResEnd(c1, 401, "Access token required")
        ELSE IF ~verifyTokenAccepts(c.req.authorization.token)
        THEN authenticateCatch(c1)
        ELSE [c1 EXCEPT !.req.user = verifyToken(c.req.authorization.token)]

\* Variant: the ownership gate lets every request pass.
requireOwnershipAllowsAll(c) == Stage(c, "requireOwnership")

\* requireOwnership: compares req.params.userId with req.user.userId
requireOwnership(c) ==
    LET userId        == Param(c.req.params, "userId")
        currentUserId == c.req.user.userId
        c1            == Stage(c, "requireOwnership")
    IN  IF userId # currentUserId
        THEN ResEnd(c1, 403, "Access denied. Not the owner.")
        ELSE c1

\* req.user.role: undefined when the claim has no such attribute
RoleOf(user) == IF "role" \in DOMAIN user THEN user.role ELSE "undefined"

\* !value for a role: undefined, null and the empty string are falsy
FalsyRole(value) == value \in {"undefined", "null", ""}

\* Variant: a claim without a role is treated like a wrong role.
requireRoleNoMissingCheck(role, c) ==
    LET c1 == Stage(c, "requireRole")
    IN  IF c.req.user = NoUser \/ RoleOf(c.req.user) # role
        THEN ResEnd(c1, 403, "Insufficient permissions")
        ELSE c1

\* requireRole(role): the middleware it returns
requireRole(role, c) ==
    LET c1 == Stage(c, "requireRole")
    IN  IF c.req.user = NoUser \/ FalsyRole(RoleOf(c.req.user))
        THEN ResEnd(c1, 403, "Role information not found")
        ELSE IF RoleOf(c.req.user) # role
        THEN ResEnd(c1, 403, "Insufficient permissions")
        ELSE c1

\* errorHandler: status and message by err.name
ErrorStatus(name) ==
    CASE name = "ValidationError"  -> 400
      [] name = "CastError"        -> 400
      [] name = "JsonWebTokenError" -> 401
      [] name = "TokenExpiredError" -> 401
      [] name = "DuplicateKey"     -> 409
      [] OTHER                     -> 500

ErrorMessage(name) ==
    CASE name = "ValidationError"  -> "Validation Error"
      [] name = "CastError"        -> "Invalid ID format"
      [] name = "JsonWebTokenError" -> "Invalid token"
      [] name = "TokenExpiredError" -> "Token expired"
      [] name = "DuplicateKey"     -> "Duplicate entry"
      [] OTHER                     -> "Internal Server Error"

errorHandler(c) ==
    ResEnd(Stage(c, "errorHandler"),
           ErrorStatus(c.req.error), ErrorMessage(c.req.error))

\* notFoundHandler
notFoundHandler(c) == ResEnd(Stage(c, "notFoundHandler"), 404, "Route not found")

\* app.get('/health')
health(c) == ResEnd(Stage(c, "handler"), 200, "OK")

\* The handler bodies up to their first await (routes/auth.js, routes/posts.js).
Await(c, call) == [c EXCEPT !.req.state = "awaiting", !.req.awaiting = call]

\* router.get('/me'): User.findById(req.user.userId)
meStart(c) ==
    IF c.req.user = NoUser
    THEN Throw(c, "rejected", "TypeError")
    ELSE Await(c, "User.findById")

\* router.post('/'): validationResult, then post.save()
createPostStart(c) ==
    IF ~c.req.bodyValid
    THEN ResEnd(c, 400, "Validation failed")
    ELSE Await(c, "post.save")

\* router.put('/:id'): validationResult, then Post.findByIdAndUpdate
updatePostStart(c) ==
    IF ~c.req.bodyValid
    THEN ResEnd(c, 400, "Validation failed")
    ELSE Await(c, "Post.findByIdAndUpdate")

\* router.delete('/:id'): Post.findByIdAndDelete
deletePostStart(c) == Await(c, "Post.findByIdAndDelete")

\* router.get('/:id'): Post.findById
getPostStart(c) == Await(c, "Post.findById")

HandlerStart(c) ==
    CASE c.req.url = "/api/auth/me"                         -> meStart(c)
      [] c.req.method = "POST" /\ c.req.url = "/api/posts"  -> createPostStart(c)
      [] c.req.method = "PUT"                               -> updatePostStart(c)
      [] c.req.method = "DELETE"                            -> deletePostStart(c)
      [] OTHER                                              -> getPostStart(c)

\* What an awaited database call can settle to: a document, null, or an
\* error of the given name.
DbOutcomes(call) ==
    IF call = "post.save"
    THEN {"ok", "ValidationError", "Error"}
    ELSE {"ok", "null", "CastError", "Error"}

\* The handler bodies after the await.
HandlerResume(c, outcome) ==
    LET c1 == [c EXCEPT !.req.awaiting = "", !.req.state = "open"]
    IN  CASE outcome = "ok" /\ c.req.awaiting = "post.save" ->
                ResEnd(c1, 201, "post")
          [] outcome = "ok" /\ c.req.awaiting = "User.findById" ->
                ResEnd(c1, 200, "user")
          [] outcome = "ok" /\ c.req.awaiting = "Post.findByIdAndDelete" ->
                ResEnd(c1, 200, "Post deleted successfully")
          [] outcome = "ok" ->
                ResEnd(c1, 200, "post")
          [] outcome = "null" /\ c.req.awaiting = "User.findById" ->
                ResEnd(c1, 404, "User not found")
          [] outcome = "null" ->
                ResEnd(c1, 404, "Post not found")
          [] OTHER ->
                Throw(c1, "rejected", outcome)

\* Variant: the wrapper drops the rejection instead of passing it to next.
catchNextDropsError(c) == c

\* asyncHandler: Promise.resolve(fn(req, res, next)).catch(next)
catchNext(c) ==
    IF c.req.state = "rejected" THEN [c EXCEPT !.req.state = "threw"] ELSE c

asyncHandler(c) == catchNext(HandlerStart(Stage(c, "handler")))

\* express-validator chains: collect errors, always next()
validation(c) == Stage(c, "validation")

\* The middleware mounted for a request, in mounting order: app.js lines
\* 53-93 and the route definitions of the two routers.
RouteChain(method, url) ==
    CASE method = "GET" /\ url = "/health" -> <<"health">>
      [] method = "GET" /\ url = "/api/auth/me" -> <<"asyncHandler">>
      [] method = "POST" /\ url = "/api/posts" ->
            <<"authenticate", "validation", "asyncHandler">>
      [] method = "GET" /\ (\E p \in PostIds : url = PostUrl(p)) ->
            <<"asyncHandler">>
      [] method = "PUT" /\ (\E p \in PostIds : url = PostUrl(p)) ->
            <<"authenticate", "requireOwnership", "validation", "asyncHandler">>
      [] method = "DELETE" /\ (\E p \in PostIds : url = PostUrl(p)) ->
            <<"authenticate", "requireOwnership", "asyncHandler">>
      [] OTHER -> <<"notFoundHandler">>

Chain(method, url) == <<"logRequests", "requestMonitor">> \o RouteChain(method, url)

Apply(name, c) ==
    CASE name = "logRequests"      -> logRequests(c)
      [] name = "requestMonitor"   -> requestMonitor(c)
      [] name = "health"           -> health(c)
      [] name = "authenticate"     -> authenticate(c)
      [] name = "requireOwnership" -> requireOwnership(c)
      [] name = "validation"       -> validation(c)
      [] name = "asyncHandler"     -> asyncHandler(c)
      [] OTHER                     -> notFoundHandler(c)

\* next(): the following middleware runs while the request is still open.
RECURSIVE Run(_, _)
Run(c, chain) ==
    IF chain = <<>> \/ c.req.state # "open"
    THEN c
    ELSE Run(Apply(Head(chain), c), Tail(chain))

\* next(err) skips to the global error handler (app.js line 93).
Finish(c) == IF c.req.state = "threw" THEN errorHandler(c) ELSE c

(***************************************************************************)
(* PerformanceMonitor.getHealthMetrics                                     *)
(***************************************************************************)
\* Reading a property of an object: undefined when the object has none of
\* that name.
Field(obj, name) == IF name \in DOMAIN obj THEN obj[name] ELSE Undefined

\* { memory, uptime, timestamp, activeMetrics: this.metrics.size }
getHealthMetrics ==
    [memory        |-> "process.memoryUsage()",
     uptime        |-> hr,
     timestamp     |-> now,
     activeMetrics |-> Cardinality(DOMAIN metrics)]

(***************************************************************************)
(* Direct use of the PerformanceMonitor API: startTiming(id), endTiming(id) *)
(***************************************************************************)
OpIds == {"op1", "op2"}

NoEnd == [id |-> "none", phaseBefore |-> "NotStarted", result |-> Undefined,
          warned |-> FALSE, before |-> NoMetrics, after |-> NoMetrics]

\* No middleware has been called directly yet.
NoMwCall == [mw |-> "none", at |-> -1, header |-> Anonymous, issued |-> FALSE,
             issuedAt |-> -1, nextThrows |-> FALSE, ownerId |-> "undefined",
             role |-> "", userBefore |-> NoUser, user |-> NoUser,
             nextCalls |-> 0, responses |-> 0, status |-> 0, body |-> ""]

(***************************************************************************)
(* routes/auth.js: POST /api/auth/register                                 *)
(***************************************************************************)
MaxUsers == 2

Usernames == {"user1", "user2"}

\* req.body.email as sent
Emails == {"dup@example.com", "Dup@example.com", "new@example.com"}

\* express-validator normalizeEmail(): lower-cases the address
normalizeEmail(email) == IF email = "Dup@example.com" THEN "dup@example.com" ELSE email

RegSlots == 1..MaxInFlight

NoRegistration == [state |-> "none", username |-> "", email |-> "",
                   emailTaken |-> FALSE]

NoReply == [status |-> 0, body |-> "", username |-> "", email |-> "",
            emailTaken |-> FALSE, valid |-> TRUE]

\* The documents User.findOne({ $or: [{ email }, { username }] }) can return.
findOneUser(email, username) ==
    {u \in users : u.email = email \/ u.username = username}

\* The 409 body: by the email of the document found.
ExistsMessage(existingUser, email) ==
    IF existingUser.email = email THEN "Email already registered"
    ELSE "Username already taken"

(***************************************************************************)
(* client/src/utils/helpers.js: debounce(func, wait)                       *)
(***************************************************************************)
wait == 2             \* the wait of the debounced function, in ms

MaxCalls == 3         \* calls of the debounced function

ArgLists == {<<"arg1">>, <<"arg2">>}

NoTimeout == -1       \* `let timeout;` before the first call

NoDebouncedCall == [at |-> -1, args |-> <<>>]

NoInvocation == [at |-> -1, args |-> <<>>, lastCallAt |-> -1, lastArgs |-> <<>>]

\* Variant: clearTimeout leaves the timer pending.
clearTimeoutKeepsTimer(armed, id) == armed

\* clearTimeout(id): the timer of that id, if still pending, is cancelled.
clearTimeout(armed, id) == {t \in armed : t.id # id}

\* setTimeout(later, delay): a new timer, due delay ms from now.
setTimeout(armed, id, args, delay) ==
    armed \cup {[id |-> id, due |-> now + delay, args |-> args]}

(***************************************************************************)
(* PerformanceMonitor.timeFunction(operationId, fn)                        *)
(***************************************************************************)
NoValue == "none"

\* What the promise of fn() settles to: a result or an error of fn.
FnOutcomes ==
    {[kind |-> "resolved", value |-> v] : v \in {"result1", "result2"}}
    \cup {[kind |-> "rejected", value |-> "error of fn"]}

NoTimeFunction == [state |-> "none", id |-> "none"]

NoSettled == [id |-> "none", outcome |-> [kind |-> "none", value |-> NoValue],
              returned |-> NoValue, thrown |-> NoValue, endCalls |-> 0,
              duration |-> Undefined, entryAfter |-> FALSE]

\* Variant: the catch block rethrows without ending the timing.
timeFunctionLeaksOnError(m, operationId, outcome) ==
    IF outcome.kind = "resolved"
    THEN [metrics  |-> endTimingMetrics(m, operationId),
          duration |-> endTimingDuration(m, operationId),
          endCalls |-> 1, returned |-> outcome.value, thrown |-> NoValue]
    ELSE [metrics  |-> m, duration |-> Undefined,
          endCalls |-> 0, returned |-> NoValue, thrown |-> outcome.value]

\* timeFunction after `await fn()': endTiming and return result in the try
\* block, endTiming and throw error in the catch block.
timeFunctionSettles(m, operationId, outcome) ==
    IF outcome.kind = "resolved"
    THEN [metrics  |-> endTimingMetrics(m, operationId),
          duration |-> endTimingDuration(m, operationId),
          endCalls |-> 1, returned |-> outcome.value, thrown |-> NoValue]
    ELSE [metrics  |-> endTimingMetrics(m, operationId),
          duration |-> endTimingDuration(m, operationId),
          endCalls |-> 1, returned |-> NoValue, thrown |-> outcome.value]

(***************************************************************************)
(* client/src/components/ErrorBoundary.jsx                                 *)
(***************************************************************************)
MaxResets == 2        \* clicks on 'Try Again'

NodeEnvs == {"development", "production", "test"}

\* The errors children throw, and the errorInfo React hands to
\* componentDidCatch for them.
ChildErrors == {"TypeError: x is undefined", "Error: boom", "Error: Test error"}

ErrorInfos == {[componentStack |-> "at Child"], [componentStack |-> "at Deep at Child"]}

NoError == "null"

NoErrorInfo == [componentStack |-> "null.componentStack"]

\* constructor: this.state = { hasError: false, error: null, errorInfo: null }
InitialState == [hasError |-> FALSE, error |-> NoError, errorInfo |-> NoErrorInfo]

\* getDerivedStateFromError(error): the update { hasError: true }
getDerivedStateFromError(state, error) == [state EXCEPT !.hasError = TRUE]

\* componentDidCatch(error, errorInfo): this.setState({ error, errorInfo })
componentDidCatch(state, error, errorInfo) ==
    [state EXCEPT !.error = error, !.errorInfo = errorInfo]

\* handleReset
handleReset(state) == InitialState

\* render(): what it returns, or the TypeError raised by reading
\* this.state.errorInfo.componentStack while errorInfo is null.
render(state, fallback, nodeEnv) ==
    IF ~state.hasError THEN "children"
    ELSE IF fallback THEN "fallback"
    ELSE IF nodeEnv = "development"
    THEN IF state.errorInfo = NoErrorInfo THEN "TypeError"
         ELSE "default UI with details"
    ELSE "default UI"

Unmounted == [mounted |-> FALSE, fallback |-> FALSE, nodeEnv |-> "test",
              state |-> InitialState, caught |-> <<>>, rendered |-> "nothing",
              resets |-> 0]

(***************************************************************************)
(* middleware/errorHandler.js: gracefulShutdown                            *)
(***************************************************************************)
forceShutdownMs == 10000   \* setTimeout(..., 10000)

ElapseMs == 5000           \* milliseconds that pass in one step of time
MaxSignals == 2            \* signals delivered to the process
MaxConnections == 2        \* connections open at the same time

Signals == {"SIGTERM", "SIGINT"}

NotExited == -1

\* The process after startServer: the server listens, the handlers of
\* gracefulShutdown are registered, nothing has been received.
Running0 == [connections |-> 0, closing |-> FALSE, closeCallbacks |-> 0,
             forceTimers |-> <<>>, signals |-> <<>>, elapsed |-> 0,
             exitCode |-> NotExited, exitBy |-> "none"]

Exited(p) == p.exitCode # NotExited

\* process.exit(code), reached from `by'
processExit(p, code, by) == [p EXCEPT !.exitCode = code, !.exitBy = by]

\* Variant: no force timer is armed.
shutdownWithoutForceTimer(forceTimers) == forceTimers

\* setTimeout(() => { ...; process.exit(1) }, 10000): one more timer, with
\* the time left until it is due.
armForceTimer(forceTimers) == Append(forceTimers, forceShutdownMs)

\* shutdown(signal): server.close(callback), then the force timer.
shutdown(p, signal) ==
    [p EXCEPT !.closing        = TRUE,
              !.closeCallbacks = @ + 1,
              !.forceTimers    = armForceTimer(@),
              !.signals        = Append(@, signal)]

Max0(n) == IF n < 0 THEN 0 ELSE n

InitExt ==
    /\ mwCall = NoMwCall
    /\ proc = Running0
    /\ boundary = Unmounted
    /\ tfCalls = [s \in Slots |-> NoTimeFunction]
    /\ tfDone = NoSettled
    /\ timers = {}
    /\ timeout = NoTimeout
    /\ nextTimerId = 1
    /\ lastCall = NoDebouncedCall
    /\ fired = NoInvocation
    /\ invocations = 0
    /\ users = {}
    /\ regs = [s \in RegSlots |-> NoRegistration]
    /\ regReply = NoReply

\* No verification has been made yet.
NoVerdict == [token |-> NoToken, subject |-> NoSubject, issuedAt |-> -1,
              at |-> -1, ok |-> FALSE, error |-> "",
              payload |-> NoUser, status |-> 0, body |-> ""]

NoPrevious == [class |-> "none", error |-> "", status |-> 0, body |-> ""]

\* extractToken has not been called yet.
NotCalled == <<"not called">>

InitObservers ==
    /\ phase = [id \in OpIds |-> "NotStarted"]
    /\ ended = NoEnd
    /\ completed = 0
    /\ durationSum = 0
    /\ wallet = {}
    /\ verdict = NoVerdict
    /\ prevVerdict = NoPrevious
    /\ failed = {}
    /\ extracted = NotCalled
    /\ InitExt

InitAux ==
    /\ InitObservers
    /\ header = NoHeader

(***************************************************************************)
(* Specification of the rate limiter on its own.                           *)
(***************************************************************************)
InitRL ==
    /\ now = 0
    /\ requests = EmptyMap
    /\ pending = [ip \in Keys |-> 0]
    /\ last = NoCall
    /\ prev = EmptyMap
    /\ admitted = [ip \in Keys |-> <<>>]
    /\ rejected = [ip \in Keys |-> -1]
    /\ solo = [ip \in Keys |-> EmptyMap]
    /\ soloDenied = FALSE
    /\ hr = 0
    /\ metrics = NoMetrics
    /\ inflight = [s \in Slots |-> NoRequest]
    /\ done = NoRequest
    /\ InitAux

\* The clock moves on between two event-loop turns; Date.now() is taken to
\* be non-decreasing.
Tick ==
    /\ now < MaxNow
    /\ now' = now + 1
    /\ UNCHANGED <<rlVars, appVars, auxVars>>

\* A request of client `key' reaches the server and waits for its turn.
Arrive(key) ==
    /\ pending[key] < MaxPending
    /\ pending' = [pending EXCEPT ![key] = @ + 1]
    /\ UNCHANGED <<now, requests, last, prev, admitted, rejected, solo, soloDenied, appVars, auxVars>>

\* The middleware returned by rateLimit(maxRequests, windowMs) runs for one
\* waiting request of `key': lines 140-164, one synchronous call.
RateLimit(key) ==
    /\ pending[key] > 0
    /\ pending' = [pending EXCEPT ![key] = @ - 1]
    /\ prev' = requests
    /\ requests' = RateLimitMap(requests, key, now)
    /\ last' = RateLimitOutcome(key, now, RateLimitDenies(requests, key, now))
    /\ admitted' = IF RateLimitDenies(requests, key, now)
                   THEN admitted
                   ELSE [admitted EXCEPT ![key] = Remember(@, now)]
    /\ rejected' = IF RateLimitDenies(requests, key, now)
                   THEN [rejected EXCEPT ![key] = now]
                   ELSE rejected
    /\ solo' = [solo EXCEPT ![key] = RateLimitMap(@, key, now)]
    /\ soloDenied' = RateLimitDenies(solo[key], key, now)
    /\ UNCHANGED <<now, appVars, auxVars>>

NextRL ==
    \/ Tick
    \/ \E key \in Keys : Arrive(key)
    \/ \E key \in Keys : RateLimit(key)

SpecRL == InitRL /\ [][NextRL]_vars

(***************************************************************************)
(* Specification of the application: requests arrive, run the synchronous  *)
(* part of the chain in one turn, and handlers resume when the database    *)
(* answers.                                                                *)
(***************************************************************************)
InitApp ==
    /\ now = 0
    /\ requests = EmptyMap
    /\ pending = [ip \in Keys |-> 0]
    /\ last = NoCall
    /\ prev = EmptyMap
    /\ admitted = [ip \in Keys |-> <<>>]
    /\ rejected = [ip \in Keys |-> -1]
    /\ solo = [ip \in Keys |-> EmptyMap]
    /\ soloDenied = FALSE
    /\ hr = 0
    /\ metrics = NoMetrics
    /\ inflight = [s \in Slots |-> NoRequest]
    /\ done = NoRequest
    /\ InitAux

\* hrtime advances; the millisecond clock may advance with it.
TickHr ==
    /\ hr < MaxHr
    /\ hr' = hr + 1
    /\ now' \in {now, now + 1}
    /\ UNCHANGED <<rlVars, metrics, inflight, done, auxVars>>

FreeSlots == {s \in Slots : inflight[s].state = "none"}

\* A request runs through the chain until it is answered or its handler
\* awaits the database.
ReceiveContext(method, url, authorization, bodyValid) ==
    Finish(Run([req |-> NewRequest(method, url, authorization, bodyValid),
                metrics |-> metrics],
               Chain(method, url)))

\* The database call a handler awaits settles and the handler runs on.
ResumeContext(s, outcome) ==
    Finish(catchNext(HandlerResume([req |-> inflight[s], metrics |-> metrics],
                                   outcome)))

ReceiveRequest(method, url, authorization, bodyValid) ==
    LET c == ReceiveContext(method, url, authorization, bodyValid)
    IN  /\ metrics' = c.metrics
        /\ IF c.req.state = "done"
           THEN /\ done' = c.req
                /\ UNCHANGED inflight
           ELSE /\ FreeSlots # {}
                /\ inflight' = [inflight EXCEPT
                                   ![CHOOSE s \in FreeSlots :
                                        \A o \in FreeSlots : s <= o] = c.req]
                /\ UNCHANGED done
        /\ UNCHANGED <<now, hr, rlVars, phase, ended, obsVars, extVars>>

ResumeRequest(s, outcome) ==
    LET c == ResumeContext(s, outcome)
    IN  /\ inflight[s].state = "awaiting"
        /\ outcome \in DbOutcomes(inflight[s].awaiting)
        /\ metrics' = c.metrics
        /\ IF c.req.state = "done"
           THEN /\ done' = c.req
                /\ inflight' = [inflight EXCEPT ![s] = NoRequest]
           ELSE /\ inflight' = [inflight EXCEPT ![s] = c.req]
                /\ UNCHANGED done
        /\ UNCHANGED <<now, hr, rlVars, phase, ended, obsVars, extVars>>

\* A request arrives.
Receive(method, url, authorization, bodyValid) ==
    /\ ReceiveRequest(method, url, authorization, bodyValid)
    /\ UNCHANGED cntVars

\* The handler of the request in slot s runs on.
Resume(s, outcome) ==
    /\ ResumeRequest(s, outcome)
    /\ UNCHANGED cntVars

\* A request body passes or fails validation; only POST and PUT carry one.
BodyChoices(method) == IF method \in {"POST", "PUT"} THEN BOOLEAN ELSE {TRUE}

AllOutcomes == {"ok", "null", "CastError", "ValidationError", "Error"}

\* Every modelled endpoint with every Authorization header, all within one
\* clock reading: what the chain does with a request does not depend on time.
NextApp ==
    \/ \E e \in Endpoints : \E h \in AuthHeaders : \E v \in BodyChoices(e.method) :
          Receive(e.method, e.url, h, v)
    \/ \E s \in Slots : \E outcome \in AllOutcomes : Resume(s, outcome)

SpecApp == InitApp /\ [][NextApp]_vars

(***************************************************************************)
(* Specification of the timing of requests: anonymous requests to a        *)
(* synchronous route, to a route whose handler throws and to a route whose *)
(* handler awaits the database, interleaved with the two clocks.           *)
(***************************************************************************)
TimedEndpoints ==
    {e \in Endpoints :
        /\ e.method = "GET"
        /\ e.url \in {"/health", "/api/auth/me"} \cup {PostUrl(p) : p \in PostIds}}

NextMon ==
    \/ TickHr
    \/ \E e \in TimedEndpoints : Receive(e.method, e.url, Anonymous, TRUE)
    \/ \E s \in Slots : \E outcome \in AllOutcomes : Resume(s, outcome)

SpecMon == InitApp /\ [][NextMon]_vars

(***************************************************************************)
(* Specification of the health metrics: the requests of SpecMon, with the  *)
(* completed requests and their durations counted by an observer.          *)
(***************************************************************************)
\* The observer's tally once the chain has left the request in context c.
Count(c) ==
    IF c.req.state = "done"
    THEN /\ completed' = completed + 1
         /\ durationSum' = durationSum + (c.req.endTime - c.req.startTime) * MsPerTick
    ELSE UNCHANGED cntVars

CountedReceive(method, url, authorization, bodyValid) ==
    /\ completed < MaxCompleted
    /\ ReceiveRequest(method, url, authorization, bodyValid)
    /\ Count(ReceiveContext(method, url, authorization, bodyValid))

CountedResume(s, outcome) ==
    /\ completed < MaxCompleted
    /\ ResumeRequest(s, outcome)
    /\ Count(ResumeContext(s, outcome))

NextCount ==
    \/ TickHr
    \/ \E e \in TimedEndpoints : CountedReceive(e.method, e.url, Anonymous, TRUE)
    \/ \E s \in Slots : \E outcome \in AllOutcomes : CountedResume(s, outcome)

SpecCount == InitApp /\ [][NextCount]_vars

(***************************************************************************)
(* Specification of the tokens: generateToken issues tokens to users while *)
(* the clock advances; the tokens issued, and strings that generateToken   *)
(* never made, are verified by verifyToken and by authenticate.            *)
(***************************************************************************)
MaxTokens == 2

\* generateToken(user) is called and its token kept by the client.
Issue(user) ==
    /\ Cardinality(wallet) < MaxTokens
    /\ wallet' = wallet \cup {[subject |-> user, at |-> now,
                                token |-> generateToken(user)]}
    /\ UNCHANGED <<now, rlVars, appVars, phase, ended, cntVars,
                   verdict, prevVerdict, failed, hdrVars, extVars>>

\* What a client can make of the tokens it holds without the secret: a token
\* signed with a key of its own, a token with a later expiry under the old
\* signature, and a string that is no token.
Forgeries ==
    {Garbage}
    \cup {[w.token EXCEPT !.sig = Signature(w.token, "attacker-key")] : w \in wallet}
    \cup {[w.token EXCEPT !.exp = @ + 1] : w \in wallet}

\* How a verdict looks from outside.
Class(v) ==
    IF v.at = -1 THEN "none"
    ELSE IF v.ok THEN "accepted"
    ELSE IF v.subject # NoSubject THEN "expired"
    ELSE "forged"

\* verifyToken(token), and authenticate on a request carrying
\* 'Authorization: Bearer <token>'.
Verify(token, subject, issuedAt) ==
    LET c  == authenticate([req |-> NewRequest("GET", "/api/auth/me",
                                               Header(BearerPrefix \o <<"t">>, token),
                                               TRUE),
                            metrics |-> NoMetrics])
        ok == verifyTokenAccepts(token)
    IN  /\ verdict' = [token    |-> token,
                       subject  |-> subject,
                       issuedAt |-> issuedAt,
                       at       |-> now,
                       ok       |-> ok,
                       error    |-> verifyTokenError(token),
                       payload  |-> IF ok THEN verifyToken(token) ELSE NoUser,
                       status   |-> c.req.status,
                       body     |-> c.req.body]
        /\ prevVerdict' = [class  |-> Class(verdict),
                           error  |-> verdict.error,
                           status |-> verdict.status,
                           body   |-> verdict.body]
        /\ failed' = IF ~ok /\ subject # NoSubject
                        /\ ~\E f \in failed : f.token = token
                     THEN failed \cup {[token |-> token, at |-> now]}
                     ELSE failed
        /\ UNCHANGED <<now, rlVars, appVars, phase, ended, cntVars,
                       wallet, hdrVars, extVars>>

NextJwt ==
    \/ Tick
    \/ \E user \in UserDocs : Issue(user)
    \/ \E w \in wallet : Verify(w.token, w.subject, w.at)
    \/ \E token \in Forgeries : Verify(token, NoSubject, -1)

SpecJwt == InitApp /\ [][NextJwt]_vars

(***************************************************************************)
(* Specification of the middlewares called directly, as their unit tests   *)
(* call them: authenticate(req, res, next), requireOwnership(req, res,     *)
(* next) and requireRole(role)(req, res, next), with tokens that           *)
(* generateToken issued, other strings, and a clock that advances.         *)
(***************************************************************************)
\* Header values without a token, and with one (written "t").
TokenlessTexts ==
    {NoHeader, <<>>, <<"B", "e", "a", "r", "e", "r">>, BearerPrefix \o <<" ", " ">>}

TokenTexts ==
    {<<"B", "a", "s", "i", "c", " ", "t">>,
     <<"b", "e", "a", "r", "e", "r", " ", "t">>,
     BearerPrefix \o <<"t">>,
     BearerPrefix \o <<" ", "t", " ">>}

\* The request object a test hands to a middleware.
DirectRequest(authorization, params, user) ==
    [req |-> [NewRequest("GET", "/", authorization, TRUE) EXCEPT
                 !.params = params, !.user = user],
     metrics |-> NoMetrics]

NoParams == [name \in {} |-> ""]

\* What is left of a call: c is the context when the middleware returned.
Outcome(mw, c, nextCalls) ==
    [NoMwCall EXCEPT !.mw = mw, !.at = now, !.user = c.req.user,
                     !.nextCalls = nextCalls,
                     !.responses = Len(c.req.called),
                     !.status = c.req.status, !.body = c.req.body]

\* authenticate(req, res, next): next() is called inside the try block, so
\* what next throws is caught by authenticate's catch block.
CallAuthenticate(authorization, issued, issuedAt, nextThrows) ==
    LET c      == authenticate(DirectRequest(authorization, NoParams, NoUser))
        passed == c.req.state = "open"
        c2     == IF passed /\ nextThrows THEN authenticateCatch(c) ELSE c
    IN  /\ mwCall' = [Outcome("authenticate", c2, IF passed THEN 1 ELSE 0) EXCEPT
                       !.header = authorization, !.issued = issued,
                       !.issuedAt = issuedAt, !.nextThrows = nextThrows]
        /\ UNCHANGED <<now, rlVars, appVars, phase, ended, cntVars, obsVars, regVars,
                       dbVars, tfVars, ebVars, sdVars>>

\* The decoded claims a request can carry.
Claims == {verifyToken(generateToken(user)) : user \in UserDocs}

\* requireOwnership(req, res, next)
CallRequireOwnership(userId, user) ==
    LET c == requireOwnership(DirectRequest(Anonymous,
                                            IF userId = "undefined" THEN NoParams
                                            ELSE [name \in {"userId"} |-> userId],
                                            user))
    IN  /\ mwCall' = [Outcome("requireOwnership", c,
                            IF c.req.state = "open" THEN 1 ELSE 0) EXCEPT
                       !.ownerId = userId, !.userBefore = user]
        /\ UNCHANGED <<now, rlVars, appVars, phase, ended, cntVars, obsVars, regVars,
                       dbVars, tfVars, ebVars, sdVars>>

Roles == {"admin", "user"}

\* req.user values for requireRole: none, a claim without a role, claims
\* with a role, and a claim whose role is the empty string.
RoleClaims ==
    {NoUser}
    \cup Claims
    \cup {[userId |-> "u1", username |-> "alice", role |-> r] : r \in Roles \cup {""}}

\* requireRole(role)(req, res, next)
CallRequireRole(role, user) ==
    LET c == requireRole(role, DirectRequest(Anonymous, NoParams, user))
    IN  /\ mwCall' = [Outcome("requireRole", c,
                            IF c.req.state = "open" THEN 1 ELSE 0) EXCEPT
                       !.role = role, !.userBefore = user]
        /\ UNCHANGED <<now, rlVars, appVars, phase, ended, cntVars, obsVars, regVars,
                       dbVars, tfVars, ebVars, sdVars>>

\* One token in the hands of the caller is enough here.
NextMw ==
    \/ Tick
    \/ \E user \in UserDocs : wallet = {} /\ Issue(user)
    \/ \E text \in TokenTexts : \E w \in wallet : \E nextThrows \in BOOLEAN :
          CallAuthenticate(Header(text, w.token), TRUE, w.at, nextThrows)
    \/ \E text \in TokenTexts : \E token \in Forgeries : \E nextThrows \in BOOLEAN :
          CallAuthenticate(Header(text, token), FALSE, -1, nextThrows)
    \/ \E text \in TokenlessTexts : \E nextThrows \in BOOLEAN :
          CallAuthenticate(Header(text, NoToken), FALSE, -1, nextThrows)
    \/ \E userId \in Users \cup {"undefined"} : \E user \in Claims :
          CallRequireOwnership(userId, user)
    \/ \E role \in Roles : \E user \in RoleClaims : CallRequireRole(role, user)

SpecMw == InitApp /\ [][NextMw]_vars

(***************************************************************************)
(* Specification of registration: requests to POST /api/auth/register run  *)
(* their handler, which awaits User.findOne and then user.save, while      *)
(* other registrations are handled in between.                             *)
(***************************************************************************)
Reply(r, status, body, valid) ==
    [status |-> status, body |-> body, username |-> r.username,
     email |-> r.email, emailTaken |-> r.emailTaken, valid |-> valid]

\* The request arrives: registerValidation, validationResult, and for a
\* valid body the handler up to await User.findOne.
RegisterStart(s, username, email, valid) ==
    LET r == [state |-> "findOne", username |-> username,
              email |-> normalizeEmail(email),
              emailTaken |-> \E u \in users : u.email = normalizeEmail(email)]
    IN  /\ regs[s].state = "none"
        /\ IF ~valid
           THEN /\ regReply' = Reply(r, 400, "Validation failed", FALSE)
                /\ UNCHANGED <<users, regs>>
           ELSE /\ regs' = [regs EXCEPT ![s] = r]
                /\ UNCHANGED <<users, regReply>>
        /\ UNCHANGED <<now, rlVars, appVars, phase, ended, cntVars, obsVars, mwVars,
                   dbVars, tfVars, ebVars, sdVars>>

\* User.findOne settles: 409 if it found a document, else the handler goes
\* on to bcrypt.hash and user.save.
RegisterFound(s) ==
    /\ regs[s].state = "findOne"
    /\ IF findOneUser(regs[s].email, regs[s].username) # {}
       THEN /\ \E existingUser \in findOneUser(regs[s].email, regs[s].username) :
                  regReply' = Reply(regs[s], 409,
                                    ExistsMessage(existingUser, regs[s].email), TRUE)
            /\ regs' = [regs EXCEPT ![s] = NoRegistration]
       ELSE /\ regs' = [regs EXCEPT ![s].state = "save"]
            /\ UNCHANGED regReply
    /\ UNCHANGED <<now, rlVars, appVars, phase, ended, cntVars, obsVars, mwVars,
                   users, dbVars, tfVars, ebVars, sdVars>>

\* user.save settles.  The schema of User is not part of the sources: the
\* save of a second document with the same email or username either
\* succeeds or is rejected with the duplicate-key error (code 11000), which
\* asyncHandler passes to errorHandler.
RegisterSaved(s, rejected11000) ==
    /\ regs[s].state = "save"
    /\ rejected11000 => findOneUser(regs[s].email, regs[s].username) # {}
    /\ ~rejected11000 => Cardinality(users) < MaxUsers
    /\ IF rejected11000
       THEN /\ regReply' = Reply(regs[s], ErrorStatus("DuplicateKey"),
                                 ErrorMessage("DuplicateKey"), TRUE)
            /\ UNCHANGED users
       ELSE /\ users' = users \cup {[username |-> regs[s].username,
                                      email |-> regs[s].email]}
            /\ regReply' = Reply(regs[s], 201, "user and token", TRUE)
    /\ regs' = [regs EXCEPT ![s] = NoRegistration]
    /\ UNCHANGED <<now, rlVars, appVars, phase, ended, cntVars, obsVars, mwVars,
                   dbVars, tfVars, ebVars, sdVars>>

NextReg ==
    \/ \E s \in RegSlots : \E username \in Usernames : \E email \in Emails :
          \E valid \in BOOLEAN : RegisterStart(s, username, email, valid)
    \/ \E s \in RegSlots : RegisterFound(s)
    \/ \E s \in RegSlots : \E rejected11000 \in BOOLEAN : RegisterSaved(s, rejected11000)

SpecReg == InitApp /\ [][NextReg]_vars

(***************************************************************************)
(* Specification of debounce: the debounced function is called at any      *)
(* time; a timer runs its callback at its due instant or, when the event   *)
(* loop is busy, later.                                                    *)
(***************************************************************************)
\* executedFunction(...args): clearTimeout(timeout); timeout = setTimeout(later, wait)
DebouncedCall(args) ==
    /\ nextTimerId <= MaxCalls
    /\ timers' = setTimeout(clearTimeout(timers, timeout), nextTimerId, args, wait)
    /\ timeout' = nextTimerId
    /\ nextTimerId' = nextTimerId + 1
    /\ lastCall' = [at |-> now, args |-> args]
    /\ invocations' = 0
    /\ UNCHANGED <<now, rlVars, appVars, phase, ended, cntVars, obsVars, mwVars,
                   regVars, fired, tfVars, ebVars, sdVars>>

\* later(): clearTimeout(timeout); func(...args)
Later(t) ==
    /\ t \in timers
    /\ now >= t.due
    /\ timers' = clearTimeout(timers \ {t}, timeout)
    /\ fired' = [at |-> now, args |-> t.args,
                 lastCallAt |-> lastCall.at, lastArgs |-> lastCall.args]
    /\ invocations' = invocations + 1
    /\ UNCHANGED <<now, rlVars, appVars, phase, ended, cntVars, obsVars, mwVars,
                   regVars, timeout, nextTimerId, lastCall, tfVars, ebVars, sdVars>>

NextDebounce ==
    \/ Tick
    \/ \E args \in ArgLists : DebouncedCall(args)
    \/ \E t \in timers : Later(t)

SpecDebounce == InitApp /\ [][NextDebounce]_vars

(***************************************************************************)
(* Specification of timeFunction: calls with a few operation ids start,    *)
(* await their fn and settle, interleaved with each other and with the     *)
(* hrtime clock.                                                           *)
(***************************************************************************)
\* timeFunction(operationId, fn) up to `await fn()'
TimeFunctionStart(s, id) ==
    /\ tfCalls[s].state = "none"
    /\ metrics' = startTiming(metrics, id)
    /\ tfCalls' = [tfCalls EXCEPT ![s] = [state |-> "awaiting", id |-> id]]
    /\ UNCHANGED <<now, hr, rlVars, inflight, done, phase, ended, cntVars, obsVars,
                   mwVars, regVars, dbVars, tfDone, ebVars, sdVars>>

\* the promise of fn() settles and timeFunction runs to its end
TimeFunctionSettle(s, outcome) ==
    LET settled == timeFunctionSettles(metrics, tfCalls[s].id, outcome)
    IN  /\ tfCalls[s].state = "awaiting"
        /\ metrics' = settled.metrics
        /\ tfDone' = [id         |-> tfCalls[s].id,
                      outcome    |-> outcome,
                      returned   |-> settled.returned,
                      thrown     |-> settled.thrown,
                      endCalls   |-> settled.endCalls,
                      duration   |-> settled.duration,
                      entryAfter |-> tfCalls[s].id \in DOMAIN settled.metrics]
        /\ tfCalls' = [tfCalls EXCEPT ![s] = NoTimeFunction]
        /\ UNCHANGED <<now, hr, rlVars, inflight, done, phase, ended, cntVars,
                       obsVars, mwVars, regVars, dbVars, ebVars, sdVars>>

NextTimeFunction ==
    \/ TickHr
    \/ \E s \in Slots : \E id \in OpIds : TimeFunctionStart(s, id)
    \/ \E s \in Slots : \E outcome \in FnOutcomes : TimeFunctionSettle(s, outcome)

SpecTimeFunction == InitApp /\ [][NextTimeFunction]_vars

(***************************************************************************)
(* Specification of ErrorBoundary: the component is mounted with or        *)
(* without a fallback prop under some NODE_ENV; a child throws while       *)
(* rendering; React applies getDerivedStateFromError and renders, then     *)
(* calls componentDidCatch, whose setState makes it render again.          *)
(***************************************************************************)
OtherThanBoundary ==
    <<now, rlVars, appVars, phase, ended, cntVars, obsVars, mwVars, regVars,
      dbVars, tfVars, sdVars>>

Mount(fallback, nodeEnv) ==
    /\ ~boundary.mounted
    /\ boundary.rendered = "nothing"
    /\ boundary' = [Unmounted EXCEPT !.mounted = TRUE, !.fallback = fallback,
                                     !.nodeEnv = nodeEnv,
                                     !.rendered = render(InitialState, fallback, nodeEnv)]
    /\ UNCHANGED OtherThanBoundary

\* A child throws in its render: getDerivedStateFromError, then render.  A
\* render that raises takes the boundary down (the error goes to the
\* parent), and componentDidCatch is not called.
ChildThrows(error, errorInfo) ==
    LET state    == getDerivedStateFromError(boundary.state, error)
        rendered == render(state, boundary.fallback, boundary.nodeEnv)
    IN  /\ boundary.mounted
        /\ boundary.rendered = "children"
        /\ boundary' = [boundary EXCEPT
                           !.state    = state,
                           !.rendered = rendered,
                           !.mounted  = rendered # "TypeError",
                           !.caught   = IF rendered = "TypeError" THEN <<>>
                                        ELSE <<error, errorInfo>>]
        /\ UNCHANGED OtherThanBoundary

\* The commit: componentDidCatch(error, errorInfo), then render.
DidCatch ==
    LET state == componentDidCatch(boundary.state, boundary.caught[1],
                                   boundary.caught[2])
    IN  /\ boundary.mounted
        /\ boundary.caught # <<>>
        /\ boundary' = [boundary EXCEPT
                           !.state    = state,
                           !.caught   = <<>>,
                           !.rendered = render(state, boundary.fallback,
                                               boundary.nodeEnv)]
        /\ UNCHANGED OtherThanBoundary

\* A click on 'Try Again', the button of the default fallback UI.
Reset ==
    /\ boundary.mounted
    /\ boundary.caught = <<>>
    /\ boundary.rendered \in {"default UI", "default UI with details"}
    /\ boundary.resets < MaxResets
    /\ boundary' = [boundary EXCEPT
                       !.state    = handleReset(boundary.state),
                       !.resets   = @ + 1,
                       !.rendered = render(handleReset(boundary.state),
                                           boundary.fallback, boundary.nodeEnv)]
    /\ UNCHANGED OtherThanBoundary

NextBoundary ==
    \/ \E fallback \in BOOLEAN : \E nodeEnv \in NodeEnvs : Mount(fallback, nodeEnv)
    \/ \E error \in ChildErrors : \E errorInfo \in ErrorInfos :
          ChildThrows(error, errorInfo)
    \/ DidCatch
    \/ Reset

SpecBoundary == InitApp /\ [][NextBoundary]_vars

(***************************************************************************)
(* Specification of gracefulShutdown: clients open and close connections,  *)
(* signals arrive, time passes.  server.close stops the server from        *)
(* accepting connections and emits 'close' once no connection is open;     *)
(* a client may keep its connection open for ever.                         *)
(***************************************************************************)
OtherThanProcess ==
    <<now, rlVars, appVars, phase, ended, cntVars, obsVars, mwVars, regVars,
      dbVars, tfVars, ebVars>>

Connect ==
    /\ ~Exited(proc)
    /\ ~proc.closing
    /\ proc.connections < MaxConnections
    /\ proc' = [proc EXCEPT !.connections = @ + 1]
    /\ UNCHANGED OtherThanProcess

Disconnect ==
    /\ ~Exited(proc)
    /\ proc.connections > 0
    /\ proc' = [proc EXCEPT !.connections = @ - 1]
    /\ UNCHANGED OtherThanProcess

\* process.on('SIGTERM' / 'SIGINT', () => shutdown(signal))
Shutdown(signal) ==
    /\ ~Exited(proc)
    /\ Len(proc.signals) < MaxSignals
    /\ proc' = shutdown(proc, signal)
    /\ UNCHANGED OtherThanProcess

\* The server emits 'close': the callback given to server.close runs.
ServerClosed ==
    /\ ~Exited(proc)
    /\ proc.closing
    /\ proc.closeCallbacks > 0
    /\ proc.connections = 0
    /\ proc' = processExit(proc, 0, "server.close")
    /\ UNCHANGED OtherThanProcess

\* Time passes while a force timer is not yet due.
Elapse ==
    /\ ~Exited(proc)
    /\ \E i \in DOMAIN proc.forceTimers : proc.forceTimers[i] > 0
    /\ proc' = [proc EXCEPT
                   !.forceTimers = [i \in DOMAIN @ |-> Max0(@[i] - ElapseMs)],
                   !.elapsed     = @ + ElapseMs]
    /\ UNCHANGED OtherThanProcess

\* A force timer that is due runs its callback.
ForceTimer ==
    /\ ~Exited(proc)
    /\ \E i \in DOMAIN proc.forceTimers : proc.forceTimers[i] = 0
    /\ proc' = processExit(proc, 1, "force timer")
    /\ UNCHANGED OtherThanProcess

\* process.on('uncaughtException' / 'unhandledRejection', ...)
Uncaught(event) ==
    /\ ~Exited(proc)
    /\ proc' = processExit(proc, 1, event)
    /\ UNCHANGED OtherThanProcess

NextShutdown ==
    \/ Connect
    \/ Disconnect
    \/ \E signal \in Signals : Shutdown(signal)
    \/ ServerClosed
    \/ Elapse
    \/ ForceTimer
    \/ \E event \in {"uncaughtException", "unhandledRejection"} : Uncaught(event)

SpecShutdown == InitApp /\ [][NextShutdown]_vars

\* The event loop runs a timer callback once the timer is due, and time
\* passes; nothing obliges a client to close its connection.
FairShutdown == SpecShutdown /\ WF_vars(Elapse) /\ WF_vars(ForceTimer)

(***************************************************************************)
(* Specification of extractToken: a header value is given and the function *)
(* is applied to it.                                                       *)
(***************************************************************************)
MaxSuffix == 3

Prefixes ==
    {<<>>,
     <<"B", "e", "a", "r", "e", "r">>,
     BearerPrefix,
     <<"b", "e", "a", "r", "e", "r", " ">>,
     <<"B", "a", "s", "i", "c", " ">>,
     <<" ">> \o BearerPrefix}

Suffixes == UNION {[1..n -> {" ", "a", "b"}] : n \in 0..MaxSuffix}

HeaderInputs == {NoHeader, Null} \cup {p \o x : p \in Prefixes, x \in Suffixes}

InitExtract ==
    /\ now = 0
    /\ requests = EmptyMap
    /\ pending = [ip \in Keys |-> 0]
    /\ last = NoCall
    /\ prev = EmptyMap
    /\ admitted = [ip \in Keys |-> <<>>]
    /\ rejected = [ip \in Keys |-> -1]
    /\ solo = [ip \in Keys |-> EmptyMap]
    /\ soloDenied = FALSE
    /\ hr = 0
    /\ metrics = NoMetrics
    /\ inflight = [s \in Slots |-> NoRequest]
    /\ done = NoRequest
    /\ InitObservers
    /\ header \in HeaderInputs

Extract ==
    /\ extracted = NotCalled
    /\ extracted' = extractToken(header)
    /\ UNCHANGED <<now, rlVars, appVars, phase, ended, cntVars, jwtVars, header,
                   extVars>>

NextExtract == Extract

SpecExtract == InitExtract /\ [][NextExtract]_vars

(***************************************************************************)
(* Specification of the timing API called directly: any caller starts and  *)
(* ends timings of a few operation ids while hrtime advances.              *)
(***************************************************************************)
StartTiming(id) ==
    /\ metrics' = startTiming(metrics, id)
    /\ phase' = [phase EXCEPT ![id] = "Running"]
    /\ UNCHANGED <<now, hr, rlVars, inflight, done, ended, cntVars, obsVars, extVars>>

EndTiming(id) ==
    /\ metrics' = endTimingMetrics(metrics, id)
    /\ ended' = [id          |-> id,
                 phaseBefore |-> phase[id],
                 result      |-> endTimingDuration(metrics, id),
                 warned      |-> endTimingWarns(metrics, id),
                 before      |-> metrics,
                 after       |-> endTimingMetrics(metrics, id)]
    /\ phase' = [phase EXCEPT ![id] = IF @ = "Running" THEN "Completed" ELSE @]
    /\ UNCHANGED <<now, hr, rlVars, inflight, done, cntVars, obsVars, extVars>>

NextTiming ==
    \/ TickHr
    \/ \E id \in OpIds : StartTiming(id)
    \/ \E id \in OpIds : EndTiming(id)

SpecTiming == InitApp /\ [][NextTiming]_vars

(***************************************************************************)
(* Properties of the rate limiter (checked under SpecRL)                   *)
(***************************************************************************)
\* The timestamps a Map holds for an ip (none when the ip has no entry).
Stored(map, ip) == IF ip \in DOMAIN map THEN map[ip] ELSE <<>>

\* How many timestamps of a sequence lie in the window (at - WindowMs, at].
InWindow(timestamps, at) ==
    Cardinality({i \in DOMAIN timestamps :
                    at - WindowMs < timestamps[i] /\ timestamps[i] <= at})

\* The admissions of last.key that preceded the most recent call.
AdmittedBefore ==
    IF last.nextCalled
    THEN SubSeq(admitted[last.key], 1, Len(admitted[last.key]) - 1)
    ELSE admitted[last.key]

\* C1: however the waiting requests of one ip are interleaved with each other,
\* with other ips and with the clock, no window of length WindowMs ever holds
\* more than MaxRequests admitted requests of one ip.
C1_WindowNeverExceedsMax ==
    \A ip \in Keys : \A t \in 0..MaxNow :
        InWindow(admitted[ip], t) <= MaxRequests

\* C1 witness: an ip has MaxRequests admissions inside the current window, one
\* of its concurrent requests was just refused and another is still waiting.
C1_Witness ==
    \E ip \in Keys :
        /\ InWindow(admitted[ip], now) = MaxRequests
        /\ last.key = ip /\ last.status = 429
        /\ pending[ip] >= 1

\* C2: a request that finds fewer than MaxRequests admissions of its ip in
\* the window is passed on; one that finds MaxRequests (a burst's N+1st) is
\* answered 429 'Too many requests' without next(); one arriving when the
\* window has passed since every earlier admission is passed on again.
C2_BurstThenRecovery ==
    last.key # "none" =>
        LET found == InWindow(AdmittedBefore, last.at)
        IN  /\ found < MaxRequests =>
                last.nextCalled /\ last.status = 0
            /\ found >= MaxRequests =>
                /\ ~last.nextCalled
                /\ last.status = 429
                /\ last.body = "Too many requests"
            /\ (\A i \in DOMAIN AdmittedBefore :
                    AdmittedBefore[i] + WindowMs <= last.at) => last.nextCalled

\* C2 witness: MaxRequests admissions, then a 429 inside their window, then
\* an admission once the window has passed since the burst.
C2_Witness ==
    \E ip \in Keys :
        /\ last.key = ip /\ last.nextCalled
        /\ Len(admitted[ip]) = MaxRequests + 1
        /\ rejected[ip] >= admitted[ip][MaxRequests]
        /\ rejected[ip] < admitted[ip][1] + WindowMs
        /\ last.at >= admitted[ip][MaxRequests] + WindowMs

\* C8 as stated: a call that answers 429 leaves the whole Map as it was.
C8_DeniedLeavesMapUntouched ==
    last.status = 429 => requests = prev

\* C8 (amended): a call that answers 429 appends nothing and leaves the
\* refused ip's own window as it was; all it may do to the Map is evict the
\* out-of-window timestamps of other ips.
C8_DeniedAppendsNothing ==
    last.status = 429 =>
        /\ Stored(requests, last.key) = Stored(prev, last.key)
        /\ \A ip \in Keys :
              Stored(requests, ip) =
                  SelectSeq(Stored(prev, ip), LAMBDA t : t > last.at - WindowMs)

\* C8 witness: a refused call that changed the Map (it evicted another ip).
C8_Witness ==
    /\ last.status = 429
    /\ requests # prev
    /\ Len(Stored(prev, last.key)) = MaxRequests

\* C9 as stated: a check for one ip leaves every other ip's stored window
\* unchanged.
C9_OtherKeysUntouched ==
    last.key # "none" =>
        \A ip \in Keys \ {last.key} : Stored(requests, ip) = Stored(prev, ip)

\* C9 (amended): eviction runs on every check and over every ip: a check at
\* time t removes from each other ip's window exactly the timestamps not
\* newer than t - WindowMs, keeps the rest unchanged, and drops an ip whose
\* window became empty.
C9_EveryKeySwept ==
    last.key # "none" =>
        \A ip \in Keys \ {last.key} :
            /\ Stored(requests, ip) =
                  SelectSeq(Stored(prev, ip), LAMBDA t : t > last.at - WindowMs)
            /\ ip \in DOMAIN requests => Len(requests[ip]) > 0

\* C9 witness: a check for one ip evicted part of another ip's window.
C9_Witness ==
    \E ip \in Keys \ {last.key} :
        /\ last.key # "none"
        /\ Len(Stored(requests, ip)) > 0
        /\ Len(Stored(requests, ip)) < Len(Stored(prev, ip))

\* C10: the answer to a request of an ip is the answer of a limiter that has
\* only ever seen that ip's requests, and both hold the same in-window
\* timestamps for it: traffic of other ips never changes an admission.
C10_KeysDoNotInterfere ==
    /\ last.key # "none" => (last.status = 429) = soloDenied
    /\ \A ip \in Keys :
          SelectSeq(Stored(requests, ip), LAMBDA t : t > now - WindowMs) =
          SelectSeq(Stored(solo[ip], ip), LAMBDA t : t > now - WindowMs)

\* C10 witness: one ip is admitted while another ip's window is saturated.
C10_Witness ==
    \E a \in Keys : \E b \in Keys \ {a} :
        /\ last.key = b /\ last.nextCalled
        /\ InWindow(Stored(requests, a), now) = MaxRequests

\* What the most recent check left of the checked ip's earlier timestamps:
\* its stored window without the timestamp the check itself pushed.
KeptByCheck ==
    IF last.nextCalled
    THEN SubSeq(Stored(requests, last.key), 1, Len(Stored(requests, last.key)) - 1)
    ELSE Stored(requests, last.key)

\* C11 as stated: a check at time t evicts exactly the timestamps older than
\* t - WindowMs; one equal to t - WindowMs is kept and still counts.
C11_BoundaryTimestampKept ==
    last.key # "none" =>
        /\ KeptByCheck =
              SelectSeq(Stored(prev, last.key), LAMBDA t : t >= last.at - WindowMs)
        /\ (last.status = 429) = (Len(KeptByCheck) >= MaxRequests)

\* C11 (amended): a check at time t evicts exactly the timestamps not newer
\* than t - WindowMs before counting: one equal to t - WindowMs is evicted
\* and no longer counts, every strictly newer one is kept and counts.
C11_BoundaryTimestampEvicted ==
    last.key # "none" =>
        /\ KeptByCheck =
              SelectSeq(Stored(prev, last.key), LAMBDA t : t > last.at - WindowMs)
        /\ (last.status = 429) = (Len(KeptByCheck) >= MaxRequests)

\* C11 witness: the checked ip's window was full, its oldest timestamp was
\* exactly WindowMs old, and the request was passed on.
C11_Witness ==
    /\ last.key # "none"
    /\ Len(Stored(prev, last.key)) = MaxRequests
    /\ Stored(prev, last.key)[1] = last.at - WindowMs
    /\ last.nextCalled

\* C12: after a check at time t every timestamp stored for the checked ip is
\* newer than t - WindowMs (and none is later than t).
C12_CheckedWindowIsFresh ==
    last.key # "none" =>
        \A i \in DOMAIN Stored(requests, last.key) :
            /\ Stored(requests, last.key)[i] > last.at - WindowMs
            /\ Stored(requests, last.key)[i] <= last.at

\* C12 witness: a check evicted part of the checked ip's window and kept the
\* rest.
C12_Witness ==
    /\ last.key # "none"
    /\ Len(KeptByCheck) > 0
    /\ Len(KeptByCheck) < Len(Stored(prev, last.key))

\* C13: the Map never holds an ip with an empty array.
C13_NoEmptyWindowStored ==
    \A ip \in DOMAIN requests : Len(requests[ip]) > 0

\* C13 witness: a check evicted the last timestamps of another ip and the ip
\* is gone from the Map.
C13_Witness ==
    \E ip \in Keys \ {last.key} :
        /\ last.key # "none"
        /\ ip \in DOMAIN prev
        /\ ip \notin DOMAIN requests

(***************************************************************************)
(* Properties of the middleware chain and of request timing                *)
(***************************************************************************)
\* The requests the server has seen and still knows about.
Seen == {r \in {done} \cup {inflight[s] : s \in Slots} : r.state # "none"}

Ran(r, name) == \E i \in DOMAIN r.stages : r.stages[i] = name

RanBefore(r, first, second) ==
    \E i \in DOMAIN r.stages : \E j \in DOMAIN r.stages :
        i < j /\ r.stages[i] = first /\ r.stages[j] = second

\* The routes documented '@access Private'.
Protected(r) ==
    \/ r.method = "GET" /\ r.url = "/api/auth/me"
    \/ r.method = "POST" /\ r.url = "/api/posts"
    \/ r.method \in {"PUT", "DELETE"} /\ (\E p \in PostIds : r.url = PostUrl(p))

OnPost(r) == r.method \in {"PUT", "DELETE"} /\ (\E p \in PostIds : r.url = PostUrl(p))

\* C3: every request that awaits its handler has a registry entry of its own
\* (holding its own start instant), and the duration its res.end obtained is
\* its own: end instant minus its own start instant.
C3_OwnTimingEntry ==
    /\ \A s \in Slots :
          inflight[s].state = "awaiting" =>
              /\ inflight[s].operationId \in DOMAIN metrics
              /\ metrics[inflight[s].operationId] = inflight[s].startTime
    /\ done.state = "done" =>
          done.duration = (done.endTime - done.startTime) * MsPerTick

\* C4: a request whose response has ended had endTiming called for it exactly
\* once, by the ending of that response, whichever way it left the chain
\* (handler response, error response of a middleware, or the global error
\* handler); a request still in the chain awaits its handler and has had no
\* call yet.
C4_StopExactlyOnce ==
    /\ done.state = "done" =>
          /\ Ran(done, "requestMonitor")
          /\ done.endCalls = 1
          /\ done.status # 0
    /\ \A s \in Slots :
          inflight[s].state # "none" =>
              /\ inflight[s].state = "awaiting"
              /\ inflight[s].endCalls = 0
              /\ inflight[s].status = 0

\* C4 witness: a handler's database call failed, the error went through the
\* global error handler, and the timing was ended once.
C4_Witness ==
    /\ done.state = "done"
    /\ Ran(done, "handler") /\ Ran(done, "errorHandler")
    /\ done.error = "CastError" /\ done.status = 400
    /\ done.endCalls = 1

\* C5: on a protected route the rate limiter runs before authenticate,
\* authenticate before the ownership gate, and the handler only after all
\* three.
C5_FixedOrder ==
    \A r \in Seen :
        Protected(r) =>
            /\ Ran(r, "authenticate") => RanBefore(r, "rateLimit", "authenticate")
            /\ Ran(r, "requireOwnership") =>
                  RanBefore(r, "authenticate", "requireOwnership")
            /\ Ran(r, "handler") =>
                  /\ RanBefore(r, "rateLimit", "handler")
                  /\ RanBefore(r, "authenticate", "handler")
                  /\ RanBefore(r, "requireOwnership", "handler")

\* C6: an authenticated PUT or DELETE on /api/posts/:id reaches the handler
\* exactly when the requester is the post's author; anybody else gets 403
\* 'Access denied. Not the owner.'.
C6_OwnerPassesGate ==
    \A r \in Seen :
        (OnPost(r) /\ r.user # NoUser) =>
            IF r.user.userId = Author(r.params["id"])
            THEN Ran(r, "handler")
            ELSE /\ ~Ran(r, "handler")
                 /\ r.status = 403
                 /\ r.body = "Access denied. Not the owner."

\* C7: GET /api/auth/me answers 401 with an error when no Authorization
\* header is sent, 200 with the user's record (when the user exists) for a
\* valid bearer token, and its handler never runs without a decoded identity.
C7_MeRequiresIdentity ==
    \A r \in Seen :
        (r.method = "GET" /\ r.url = "/api/auth/me") =>
            /\ Ran(r, "handler") => r.user # NoUser
            /\ (r.state = "done" /\ r.authorization.text = NoHeader) =>
                  r.status = 401 /\ r.body # ""
            /\ (r.state = "done" /\ startsWith(r.authorization.text, BearerPrefix)
                    /\ r.authorization.token.kind = "jwt") =>
                  r.status \in {200, 404}

(***************************************************************************)
(* Properties of the timing API (checked under SpecTiming)                 *)
(***************************************************************************)
\* C14: endTiming(id) of a started (Running) id returns a duration >= 0,
\* removes the entry and completes the id; endTiming(id) of an id that is not
\* running (never started, or already completed and not started again)
\* returns undefined, logs the warning and changes nothing in the registry.
C14_StartStopLifecycle ==
    /\ \A id \in OpIds : (phase[id] = "Running") = (id \in DOMAIN metrics)
    /\ ended.id # "none" =>
          IF ended.phaseBefore = "Running"
          THEN /\ ended.result >= 0
               /\ ~ended.warned
               /\ ended.id \notin DOMAIN ended.after
               /\ \A id \in DOMAIN ended.before \ {ended.id} :
                     id \in DOMAIN ended.after /\ ended.after[id] = ended.before[id]
          ELSE /\ ended.result = Undefined
               /\ ended.warned
               /\ ended.after = ended.before

\* C14 witness: an id was started, ended with a positive duration, and its
\* second endTiming came back undefined.
C14_Witness ==
    /\ ended.id # "none"
    /\ ended.phaseBefore = "Completed"
    /\ phase[ended.id] = "Completed"
    /\ ended.result = Undefined
    /\ hr > 0

(***************************************************************************)
(* Properties of the res.end overrides (checked under SpecMon)             *)
(***************************************************************************)
\* C15: every call of the wrapped res.end reaches the underlying end exactly
\* once and with the same arguments, and the request went on through the
\* chain after the monitor, whether the measured duration was above the slow
\* threshold, below it, or absent.
C15_EndPassedThrough ==
    /\ done.state = "done" =>
          /\ Len(done.called) = 1
          /\ done.sent = done.called
          /\ done.body = done.called[1][1]
          /\ Len(done.stages) > 2
          /\ done.slowWarned = (done.duration # Undefined
                                   /\ done.duration > slowRequestThreshold)
    /\ \A s \in Slots :
          inflight[s].state # "none" =>
              inflight[s].called = <<>> /\ inflight[s].sent = <<>>

\* C15 witness: a response ended although its timing entry was gone.
C15_Witness ==
    /\ done.state = "done"
    /\ done.duration = Undefined
    /\ Len(done.sent) = 1 /\ done.status = 200

\* The two other cases: a slow response and a fast one.
C15_SlowCase == done.state = "done" /\ done.slowWarned /\ Len(done.sent) = 1

C15_FastCase ==
    /\ done.state = "done" /\ ~done.slowWarned
    /\ done.duration # Undefined /\ Len(done.sent) = 1

(***************************************************************************)
(* Properties of the health metrics (checked under SpecCount)              *)
(***************************************************************************)
\* C16: once requests have completed, the monitor's request count equals the
\* number of completed requests and its average response time equals the
\* mean of their durations.
C16_CountAndAverage ==
    completed > 0 =>
        /\ Field(getHealthMetrics, "requests") = completed
        /\ Field(getHealthMetrics, "averageResponseTime") * completed = durationSum

(***************************************************************************)
(* Properties of the tokens (checked under SpecJwt)                        *)
(***************************************************************************)
\* The instant (ms) from which a token issued at the given instant is expired.
ExpiryMs(issuedAt) == (Seconds(issuedAt) + expiresIn) * MsPerSecond

C18_ExpiredRejected ==
    /\ (verdict.subject # NoSubject
            /\ verdict.at >= verdict.token.exp * MsPerSecond) =>
          ~verdict.ok /\ verdict.error = "Invalid token"
    /\ (\E f \in failed : f.token = verdict.token) => ~verdict.ok

\* C18 witness: an issued token failed at its expiry and failed again later.
C18_Witness ==
    /\ verdict.subject # NoSubject
    /\ ~verdict.ok
    /\ \E f \in failed :
          /\ f.token = verdict.token
          /\ f.at = verdict.token.exp * MsPerSecond
          /\ f.at < verdict.at

\* C19: two rejections, one of a malformed or wrongly signed token and one
\* of an expired token, look the same: the same error from verifyToken, the
\* same status 401 and the same body from authenticate.
C19_UniformRejection ==
    (prevVerdict.class \in {"forged", "expired"} /\ verdict.at # -1 /\ ~verdict.ok) =>
        /\ verdict.error = prevVerdict.error
        /\ verdict.error = "Invalid token"
        /\ verdict.status = 401 /\ prevVerdict.status = 401
        /\ verdict.body = prevVerdict.body

\* C19 witness: a wrongly signed token was rejected, then an expired one.
C19_Witness ==
    /\ prevVerdict.class = "forged"
    /\ Class(verdict) = "expired"
    /\ verdict.status = 401

(***************************************************************************)
(* Properties of extractToken (checked under SpecExtract)                  *)
(***************************************************************************)
Blank(str) == \A i \in DOMAIN str : str[i] \in Whitespace

\* The positions <<i, j>> of the first and last character of the token of a
\* header value 'Bearer <token>': after the prefix, between whitespace only.
TokenSpans ==
    {span \in (8..Len(header)) \X (8..Len(header)) :
        /\ span[1] <= span[2]
        /\ SubSeq(header, 1, 7) = BearerPrefix
        /\ Blank(SubSeq(header, 8, span[1] - 1))
        /\ Blank(SubSeq(header, span[2] + 1, Len(header)))
        /\ header[span[1]] \notin Whitespace
        /\ header[span[2]] \notin Whitespace}

\* C20: extractToken returns the token without the surrounding whitespace
\* when the header value is 'Bearer ' followed by a non-empty token, and null
\* for every other header value.
C20_TokenOrNull ==
    extracted # NotCalled =>
        IF header \notin {NoHeader, Null} /\ TokenSpans # {}
        THEN \E span \in TokenSpans : extracted = SubSeq(header, span[1], span[2])
        ELSE extracted = Null

(***************************************************************************)
(* Properties of the middlewares called directly (checked under SpecMw)    *)
(***************************************************************************)
\* The header value is 'Bearer ' followed by something that is not blank.
CarriesBearerToken(text) ==
    /\ text \notin {NoHeader, Null}
    /\ Len(text) >= 8
    /\ SubSeq(text, 1, 7) = BearerPrefix
    /\ \E i \in 8..Len(text) : text[i] \notin Whitespace

\* The token of the call was issued by generateToken and is not yet expired.
ValidToken == mwCall.issued /\ mwCall.at < ExpiryMs(mwCall.issuedAt)

\* C21: authenticate answers an absent or malformed header with 401 'Access
\* token required' and a present but invalid or expired token with 401
\* 'Invalid or expired token', in both cases without calling next; for a
\* valid token it sets req.user to the decoded claim and calls next, sending
\* nothing itself when next returns.
C21_ThreeOutcomes ==
    mwCall.mw = "authenticate" =>
        IF ~CarriesBearerToken(mwCall.header.text)
        THEN /\ mwCall.status = 401 /\ mwCall.body = "Access token required"
             /\ mwCall.responses = 1 /\ mwCall.nextCalls = 0
             /\ mwCall.user = NoUser
        ELSE IF ~ValidToken
        THEN /\ mwCall.status = 401 /\ mwCall.body = "Invalid or expired token"
             /\ mwCall.responses = 1 /\ mwCall.nextCalls = 0
             /\ mwCall.user = NoUser
        ELSE /\ mwCall.user.userId = mwCall.header.token.userId
             /\ mwCall.user.username = mwCall.header.token.username
             /\ mwCall.user.exp = mwCall.header.token.exp
             /\ mwCall.nextCalls = 1
             /\ ~mwCall.nextThrows => mwCall.responses = 0

\* C21 witness: an issued token was refused after its expiry.
C21_Witness ==
    /\ mwCall.mw = "authenticate"
    /\ mwCall.issued /\ ~ValidToken
    /\ CarriesBearerToken(mwCall.header.text)
    /\ mwCall.status = 401 /\ mwCall.nextCalls = 0

\* C22: requireOwnership calls next and sends nothing exactly when the
\* claim's userId equals the owner id in the request; otherwise it sends 403
\* 'Access denied. Not the owner.' and does not call next.
C22_OwnerOnly ==
    mwCall.mw = "requireOwnership" =>
        IF mwCall.userBefore.userId = mwCall.ownerId
        THEN mwCall.nextCalls = 1 /\ mwCall.responses = 0
        ELSE /\ mwCall.nextCalls = 0 /\ mwCall.responses = 1
             /\ mwCall.status = 403
             /\ mwCall.body = "Access denied. Not the owner."

\* C22 witness: the owner was let through.
C22_Witness ==
    /\ mwCall.mw = "requireOwnership"
    /\ mwCall.ownerId = "u2" /\ mwCall.userBefore.userId = "u2"
    /\ mwCall.nextCalls = 1

\* C23 as stated: 'Role information not found' exactly for a claim with no
\* role attribute at all (or no claim), 'Insufficient permissions' for a
\* present but different role, next for the required role.
C23_ThreeRoleOutcomes ==
    mwCall.mw = "requireRole" =>
        IF mwCall.userBefore = NoUser \/ "role" \notin DOMAIN mwCall.userBefore
        THEN /\ mwCall.status = 403 /\ mwCall.body = "Role information not found"
             /\ mwCall.nextCalls = 0
        ELSE IF mwCall.userBefore.role # mwCall.role
        THEN /\ mwCall.status = 403 /\ mwCall.body = "Insufficient permissions"
             /\ mwCall.nextCalls = 0
        ELSE mwCall.nextCalls = 1 /\ mwCall.responses = 0

\* C23 amended: 'Role information not found' for no claim and for a claim
\* whose role is absent or empty; 'Insufficient permissions' for a non-empty
\* role that differs; next for the required role.
C23_EmptyRoleCountsAsMissing ==
    mwCall.mw = "requireRole" =>
        IF mwCall.userBefore = NoUser \/ "role" \notin DOMAIN mwCall.userBefore
              \/ RoleOf(mwCall.userBefore) = ""
        THEN /\ mwCall.status = 403 /\ mwCall.body = "Role information not found"
             /\ mwCall.nextCalls = 0 /\ mwCall.responses = 1
        ELSE IF mwCall.userBefore.role # mwCall.role
        THEN /\ mwCall.status = 403 /\ mwCall.body = "Insufficient permissions"
             /\ mwCall.nextCalls = 0 /\ mwCall.responses = 1
        ELSE mwCall.nextCalls = 1 /\ mwCall.responses = 0

\* C23 witness: a claim with an empty role was answered as having none.
C23_Witness ==
    /\ mwCall.mw = "requireRole"
    /\ "role" \in DOMAIN mwCall.userBefore
    /\ mwCall.userBefore.role = ""
    /\ mwCall.body = "Role information not found"

\* C27: a call of authenticate either calls next once after setting
\* req.user and sends nothing, or sends one 401 and does not call next.
C27_NextXorResponse ==
    mwCall.mw = "authenticate" =>
        \/ mwCall.nextCalls = 1 /\ mwCall.responses = 0 /\ mwCall.user # NoUser
        \/ mwCall.nextCalls = 0 /\ mwCall.responses = 1 /\ mwCall.status = 401

(***************************************************************************)
(* Properties of registration (checked under SpecReg)                      *)
(***************************************************************************)
\* C24: a registration whose email already belonged to a stored user when
\* the request arrived is answered with status 400 and an error.
C24_DuplicateEmailIs400 ==
    (regReply.status # 0 /\ regReply.emailTaken) =>
        regReply.status = 400 /\ regReply.body # ""

(***************************************************************************)
(* Properties of debounce (checked under SpecDebounce)                     *)
(***************************************************************************)
\* Every burst has its one invocation pending, with the arguments of its
\* last call and due `wait' after it, or has had it.
OncePerBurst ==
    /\ Cardinality(timers) <= 1
    /\ \A t \in timers :
          /\ t.due = lastCall.at + wait /\ t.args = lastCall.args
          /\ invocations = 0
    /\ (timers = {} /\ lastCall.at # -1) => invocations = 1

\* C25 as stated: the wrapped function is invoked once per burst, exactly
\* `wait' ms after the last call of the burst, with that call's arguments.
C25_InvokedExactlyAfterWait ==
    /\ OncePerBurst
    /\ fired.at # -1 =>
          /\ fired.at = fired.lastCallAt + wait
          /\ fired.args = fired.lastArgs

\* C25 amended: the wrapped function is invoked once per burst, never
\* earlier than `wait' ms after the last call of the burst, with that call's
\* arguments.
C25_InvokedNoEarlierThanWait ==
    /\ OncePerBurst
    /\ fired.at # -1 =>
          /\ fired.at >= fired.lastCallAt + wait
          /\ fired.args = fired.lastArgs

\* C25 witness: a burst of two calls with different arguments, its timer
\* run late, invoked with the second call's arguments.
C25_Witness ==
    /\ fired.at > fired.lastCallAt + wait
    /\ fired.args = <<"arg2">>
    /\ nextTimerId = 3
    /\ invocations = 1
    /\ timers = {}

(***************************************************************************)
(* Size of the timing registry (checked under SpecMon)                     *)
(***************************************************************************)
\* The requests whose timing was started and has not ended yet.
Running == {s \in Slots : inflight[s].state = "awaiting"}

\* C26: the number of entries of the registry (activeMetrics) is at most the
\* number of operations started and not yet ended, and zero when there is
\* none; a request whose response has ended has left no entry behind.
C26_RegistryBounded ==
    /\ getHealthMetrics.activeMetrics <= Cardinality(Running)
    /\ Running = {} => getHealthMetrics.activeMetrics = 0
    /\ (done.state = "done" /\ \A s \in Running : inflight[s].operationId # done.operationId)
          => done.operationId \notin DOMAIN metrics

\* C26 witness: two requests were timed under one operation id, one has
\* ended and removed the entry, the other is still awaited.
C26_Witness ==
    /\ done.state = "done"
    /\ done.duration # Undefined
    /\ \E s \in Running : inflight[s].operationId = done.operationId
    /\ getHealthMetrics.activeMetrics = 0

C29_FallbackRenders ==
    (boundary.state.hasError /\ ~boundary.fallback) =>
        boundary.rendered \in {"default UI", "default UI with details"}

(***************************************************************************)
(* Properties of gracefulShutdown (checked under FairShutdown)             *)
(***************************************************************************)
Signalled == proc.signals # <<>>

\* How a signalled process may have exited through shutdown: with code 0
\* from the callback of server.close, which ran with no connection open, or
\* with code 1 from a force timer, no earlier than 10 seconds after the
\* first signal.
ShutdownExit ==
    /\ proc.exitBy = "server.close" =>
          /\ proc.exitCode = 0
          /\ Signalled
          /\ proc.connections = 0
    /\ proc.exitBy = "force timer" =>
          /\ proc.exitCode = 1
          /\ Signalled
          /\ proc.elapsed >= forceShutdownMs
    /\ proc.exitCode = 0 => proc.exitBy = "server.close"

\* C30: once SIGTERM or SIGINT has been received the process eventually
\* exits; the shutdown exits with code 0 when server.close completes and
\* with code 1 when the 10-second force timer fires.
C30_ShutdownAlwaysExits ==
    /\ [] ShutdownExit
    /\ Signalled ~> Exited(proc)

\* The force timer ended a process whose client never closed its connection.
C30_Witness ==
    /\ proc.exitBy = "force timer"
    /\ proc.exitCode = 1
    /\ proc.connections > 0
    /\ Len(proc.signals) = 2

====
